---- MODULE Spec2Model ----
(***************************************************************************)
(* A model of cozy/cost_model.py: the symbolic cost assignment             *)
(* (CompositeCostModel.cost and its visitor), the joint cardinality        *)
(* constraints (Cost.order_cardinalities), the solver-backed partial order *)
(* (Cost.always, Cost.compare_to and the four derived predicates) and      *)
(* debug_comparison.                                                       *)
(*                                                                         *)
(* Expressions are the nodes of a small fixed universe, named by strings.  *)
(* Integer formulas (cost formulas, sides of assumptions) are kept in      *)
(* prefix form: a sequence of nodes [k, n] with k one of "num", "var",     *)
(* "+", "*"; n is the literal or the number of the fresh variable.         *)
(* Secondary costs are counted in hundredths (statecost is size / 100).    *)
(***************************************************************************)
EXTENDS Integers, Sequences, FiniteSets, TLC

(***************************************************************************)
(* Bounds of the model.                                                    *)
(***************************************************************************)
MaxCosts == 2

(***************************************************************************)
(* The options, at their defaults.                                         *)
(***************************************************************************)
assume_large_cardinalities == TRUE
simple_cost_model == FALSE

(***************************************************************************)
(* The state.                                                              *)
(***************************************************************************)
VARIABLES
  fresh,     \* the counter behind fresh_var
  scratch,   \* the attributes cardinalities, assumptions, secondaries of the
             \* CompositeCostModel instance
  costs,     \* the Cost objects returned so far, in order
  inputs,    \* history: the (expression, pool) of the call that returned each
  cache,     \* the lru_cache of cardinality_le: the keys it holds
  last       \* the last call of the comparison engine and what it returned

vars == <<fresh, scratch, costs, inputs, cache, last>>

(***************************************************************************)
(* The expression universe.                                                *)
(***************************************************************************)
RUNTIME_POOL == "runtime"
STATE_POOL == "state"
Pools == {RUNTIME_POOL, STATE_POOL}

Exprs == {"x", "m", "xs", "ys", "x.f", "m[x]", "len(m[x])", "true",
          "\\a.true", "filter(xs)", "len(filter(xs))", "state(xs)"}

Kind(e) ==
  CASE e \in {"x", "m", "xs", "ys"} -> "EVar"
    [] e = "x.f" -> "EGetField"
    [] e = "m[x]" -> "EMapGet"
    [] e \in {"len(m[x])", "len(filter(xs))"} -> "EUnaryOp"
    [] e = "true" -> "EBool"
    [] e = "\\a.true" -> "ELambda"
    [] e = "filter(xs)" -> "EFilter"
    [] e = "state(xs)" -> "EStateVar"

\* the sub-expressions of a node, in the order of its children()
Children(e) ==
  CASE e = "x.f" -> <<"x">>
    [] e = "m[x]" -> <<"m", "x">>
    [] e = "len(m[x])" -> <<"m[x]">>
    [] e = "\\a.true" -> <<"true">>
    [] e = "filter(xs)" -> <<"xs", "\\a.true">>
    [] e = "len(filter(xs))" -> <<"filter(xs)">>
    [] e = "state(xs)" -> <<"xs">>
    [] OTHER -> <<>>

\* the number of children of a node that are not expressions (a variable's
\* name, a field's name, a literal's value, an operator's name)
NonExpChildren(e) ==
  CASE Kind(e) \in {"EVar", "EGetField", "EBool", "EUnaryOp"} -> 1
    [] OTHER -> 0

TypeOf(e) ==
  CASE e \in {"x", "x.f", "len(m[x])", "len(filter(xs))"} -> "Int"
    [] e = "m" -> "Map<Int,Bag<Str>>"
    [] e \in {"xs", "ys", "filter(xs)", "state(xs)"} -> "Bag<Int>"
    [] e = "m[x]" -> "Bag<Str>"
    [] e = "true" -> "Bool"
    [] e = "\\a.true" -> "Int->Bool"

is_collection(t) == t \in {"Bag<Int>", "Bag<Str>"}

\* the operator of a unary node; both unary nodes of the universe are lengths
UOpOf(e) == "len"

ReductionOps == {"sum", "distinct", "unique", "all", "any", "len"}

RECURSIVE SizeOf(_)
RECURSIVE SizeOfAll(_)
SizeOfAll(es) == IF es = <<>> THEN 0 ELSE SizeOf(Head(es)) + SizeOfAll(Tail(es))
\* Exp.size(): the number of expression nodes
SizeOf(e) == 1 + SizeOfAll(Children(e))

RECURSIVE Dedup(_)
Dedup(s) ==
  IF s = <<>> THEN <<>>
  ELSE LET r == Dedup(SubSeq(s, 1, Len(s) - 1))
           x == s[Len(s)]
       IN IF \E i \in 1..Len(r) : r[i] = x THEN r ELSE Append(r, x)

RECURSIVE FreeVarsAll(_)
RECURSIVE free_vars(_)
FreeVarsAll(es) == IF es = <<>> THEN <<>> ELSE free_vars(Head(es)) \o FreeVarsAll(Tail(es))
\* free_vars(e): the free variables of e in order of first occurrence (the
\* bound variable of the only lambda does not occur in its body)
free_vars(e) == IF Kind(e) = "EVar" THEN <<e>> ELSE Dedup(FreeVarsAll(Children(e)))

\* alpha_equivalent(c1, c2): no two distinct expressions of the universe differ
\* only in the names of bound variables
alpha_equivalent(c1, c2) == c1 = c2

(***************************************************************************)
(* Integer formulas in prefix form.                                        *)
(***************************************************************************)
ENum(n) == << [k |-> "num", n |-> n] >>
EVarF(v) == << [k |-> "var", n |-> v] >>
EBinOp(a, op, b) == << [k |-> op, n |-> 0] >> \o a \o b

ZERO == ENum(0)
ONE == ENum(1)

IsENum(f) == f[1].k = "num"

RECURSIVE EndOf(_, _)
\* the position after the sub-formula of f that starts at position i
EndOf(f, i) == IF f[i].k \in {"num", "var"} THEN i + 1 ELSE EndOf(f, EndOf(f, i + 1))

LeftOf(f) == SubSeq(f, 2, EndOf(f, 2) - 1)
RightOf(f) == SubSeq(f, EndOf(f, 2), Len(f))

FormulaVars(f) == {f[i].n : i \in {j \in 1..Len(f) : f[j].k = "var"}}

RECURSIVE EvalF(_, _)
\* eval(f, env): the value of f when the variables are bound by env
EvalF(f, env) ==
  CASE f[1].k = "num" -> f[1].n
    [] f[1].k = "var" -> env[f[1].n]
    [] f[1].k = "+" -> EvalF(LeftOf(f), env) + EvalF(RightOf(f), env)
    [] f[1].k = "*" -> EvalF(LeftOf(f), env) * EvalF(RightOf(f), env)

EvalOp(a, op, b) ==
  CASE op = "<=" -> a <= b
    [] op = "<" -> a < b
    [] op = ">=" -> a >= b
    [] op = ">" -> a > b
    [] op = "==" -> a = b

RECURSIVE break_sum(_)
break_sum(e) ==
  IF e[1].k = "+" THEN break_sum(LeftOf(e)) \o break_sum(RightOf(e)) ELSE <<e>>

RECURSIVE BreakAll(_)
BreakAll(es) == IF es = <<>> THEN <<>> ELSE break_sum(Head(es)) \o BreakAll(Tail(es))

RECURSIVE SumNums(_)
SumNums(ns) == IF ns = <<>> THEN 0 ELSE Head(ns)[1].n + SumNums(Tail(ns))

RECURSIVE build_balanced_tree(_)
build_balanced_tree(es) ==
  IF Len(es) = 1 THEN es[1]
  ELSE LET cut == Len(es) \div 2
       IN EBinOp(build_balanced_tree(SubSeq(es, 1, cut)), "+",
                 build_balanced_tree(SubSeq(es, cut + 1, Len(es))))

ESum(es0) ==
  LET es == SelectSeq(BreakAll(es0), LAMBDA e : e # ZERO)
      nums == SelectSeq(es, IsENum)
      nonnums == SelectSeq(es, LAMBDA e : ~IsENum(e))
  IN IF es = <<>> THEN ZERO
     ELSE build_balanced_tree(
            IF nums # <<>> THEN Append(nonnums, ENum(SumNums(nums))) ELSE nonnums)

EXTREME_COST == ENum(1000)
MILD_PENALTY == ENum(10)
TWO == ENum(2)

Atom(l, op, r) == [op |-> op, l |-> l, r |-> r]

(***************************************************************************)
(* CompositeCostModel: the visitor.  Its scratch attributes are threaded   *)
(* as st = [cards, asms, sec, fresh]: self.cardinalities (an ordered map   *)
(* from expression to variable), self.assumptions, self.secondaries and    *)
(* the process-wide counter behind fresh_var.                              *)
(***************************************************************************)
HasCard(st, e) == \E i \in 1..Len(st.cards) : st.cards[i].e = e
CardOf(st, e) == st.cards[CHOOSE i \in 1..Len(st.cards) : st.cards[i].e = e].v

RECURSIVE cardinality(_, _)
\* cardinality(e): the formula for |e| and the scratch state after the call
cardinality(e, st) ==
  IF Kind(e) = "EStateVar" THEN cardinality(Children(e)[1], st)
  ELSE IF HasCard(st, e) THEN [c |-> EVarF(CardOf(st, e)), st |-> st]
  ELSE LET v == st.fresh
           st1 == [st EXCEPT !.fresh = @ + 1,
                             !.cards = Append(@, [e |-> e, v |-> v])]
       IN IF Kind(e) = "EFilter"
          THEN LET r == cardinality(Children(e)[1], st1)
               IN [c |-> EVarF(v),
                   st |-> [r.st EXCEPT !.asms = @ \o
                            << Atom(EVarF(v), "<=", r.c),
                               Atom(EBinOp(EVarF(v), "*", ENum(5)), ">=",
                                    EBinOp(r.c, "*", ENum(4))) >>]]
          ELSE [c |-> EVarF(v), st |-> st1]

\* statecost(e), in hundredths
statecost(e) == SizeOf(e)

sizeof(e, st) ==
  IF is_collection(TypeOf(e)) THEN cardinality(e, st) ELSE [c |-> ONE, st |-> st]

RECURSIVE Zeros(_)
Zeros(n) == IF n = 0 THEN <<>> ELSE <<ZERO>> \o Zeros(n - 1)

\* join(x, child_costs) for an expression x
join(x, child_costs) == ESum(<<ONE>> \o child_costs)

RECURSIVE visit(_, _)
RECURSIVE VisitAll(_, _)
\* the costs of the children of a node, visited left to right
VisitAll(es, st) ==
  IF es = <<>> THEN [fs |-> <<>>, st |-> st]
  ELSE LET r == visit(Head(es), st)
           rs == VisitAll(Tail(es), r.st)
       IN [fs |-> <<r.f>> \o rs.fs, st |-> rs.st]

visit_EStateVar(e, st) ==
  LET st1 == [st EXCEPT !.sec = @ + statecost(Children(e)[1])]
      r == sizeof(Children(e)[1], st1)
  IN [f |-> ESum(<<ONE, r.c>>), st |-> r.st]

visit_EUnaryOp(e, st) ==
  LET r1 == visit(Children(e)[1], st)
  IN IF UOpOf(e) \in ReductionOps
     THEN LET r2 == cardinality(Children(e)[1], r1.st)
          IN [f |-> ESum(<<ONE, r1.f, r2.c>>), st |-> r2.st]
     ELSE [f |-> ESum(<<ONE, r1.f>>), st |-> r1.st]

\* the lambda is applied to a fresh variable, then its body is visited
visit_ELambda(e, st) == visit(Children(e)[1], [st EXCEPT !.fresh = @ + 1])

\* a variant of visit_EMapGet without the MILD_PENALTY term
visit_EMapGet_mut(e, st) ==
  LET r1 == visit(Children(e)[1], st)
      r2 == visit(Children(e)[2], r1.st)
  IN [f |-> ESum(<<r1.f, r2.f>>), st |-> r2.st]

visit_EMapGet(e, st) ==
  LET r1 == visit(Children(e)[1], st)
      r2 == visit(Children(e)[2], r1.st)
  IN [f |-> ESum(<<MILD_PENALTY, r1.f, r2.f>>), st |-> r2.st]

visit_EFilter(e, st) ==
  LET r1 == visit(Children(e)[1], st)
      r2 == cardinality(Children(e)[1], r1.st)
      r3 == visit(Children(e)[2], r2.st)
  IN [f |-> ESum(<<TWO, r1.f, EBinOp(r2.c, "*", r3.f)>>), st |-> r3.st]

\* a node without a visit method: its children are visited and joined; a
\* child that is not an expression joins to ZERO
visit_ADT(e, st) ==
  LET rs == VisitAll(Children(e), st)
  IN [f |-> join(e, rs.fs \o Zeros(NonExpChildren(e))), st |-> rs.st]

visit(e, st) ==
  CASE Kind(e) = "EStateVar" -> visit_EStateVar(e, st)
    [] Kind(e) = "EUnaryOp" -> visit_EUnaryOp(e, st)
    [] Kind(e) = "ELambda" -> visit_ELambda(e, st)
    [] Kind(e) = "EMapGet" -> visit_EMapGet(e, st)
    [] Kind(e) = "EFilter" -> visit_EFilter(e, st)
    [] OTHER -> visit_ADT(e, st)

RECURSIVE LargeCards(_, _)
\* the loop of cost() over free_vars(e) under assume-large-cardinalities
LargeCards(vs, st) ==
  IF vs = <<>> THEN st
  ELSE IF is_collection(TypeOf(Head(vs)))
       THEN LET r == cardinality(Head(vs), st)
            IN LargeCards(Tail(vs),
                 [r.st EXCEPT !.asms = Append(@, Atom(r.c, ">", ENum(1000)))])
       ELSE LargeCards(Tail(vs), st)

\* Cost(e, pool, formula, secondary, assumptions, cardinalities)
Cost(e, pool, formula, secondary, asms, cards) ==
  [e |-> e, pool |-> pool, formula |-> formula, secondary |-> secondary,
   assumptions |-> asms, cardinalities |-> cards]

\* Cost.ZERO = Cost(None, None, ZERO)
CostZERO == Cost("None", "None", ZERO, 0, <<>>, <<>>)

\* a variant of RuntimeScratch that keeps the scratch attributes of the
\* previous call instead of resetting them
RuntimeScratch_mut(e, fr) ==
  LET st0 == [cards |-> scratch.cards, asms |-> scratch.asms, sec |-> scratch.sec,
              fresh |-> fr]
      st1 == IF assume_large_cardinalities THEN LargeCards(free_vars(e), st0) ELSE st0
  IN visit(e, st1)

\* the scratch state at the end of a runtime-pool cost(e, pool) call
RuntimeScratch(e, fr) ==
  LET st0 == [cards |-> <<>>, asms |-> <<>>, sec |-> 0, fresh |-> fr]
      st1 == IF assume_large_cardinalities THEN LargeCards(free_vars(e), st0) ELSE st0
      st2 == [st1 EXCEPT !.sec = 0]
  IN visit(e, st2)

\* the Cost built from the scratch state: the loop that inverts
\* self.cardinalities rebinds e, so the Cost records the last expression of
\* the table when the table is not empty
RuntimeCost(e, pool, r) ==
  LET n == Len(r.st.cards)
      invcard == [i \in 1..n |-> [v |-> r.st.cards[i].v, e |-> r.st.cards[i].e]]
      e1 == IF n = 0 THEN e ELSE r.st.cards[n].e
  IN Cost(e1, pool, r.f, r.st.sec, r.st.asms, invcard)

StateCost(e, pool) == Cost(e, pool, ZERO, statecost(e), <<>>, <<>>)

(***************************************************************************)
(* The solver.  A query is decided or reported unknown; a decided query    *)
(* gets the truth.  The truth of a length comparison is validity over the  *)
(* lengths 0..MaxLen of the collections, a filter being no longer than its *)
(* source; the truth of an arithmetic implication is validity over the     *)
(* bindings of its variables in Dom.  Which queries are reported unknown   *)
(* is left open, except that within one call of compare_to or of           *)
(* debug_comparison the same query text gets the same outcome.             *)
(***************************************************************************)
MaxLen == 1
MaxVal == 1

Colls == {e \in Exprs : is_collection(TypeOf(e))}

\* the external assumptions a comparison may be given
T == "true"
Asms == {T, "len(ys) <= len(xs)"}

LenEnvs == {env \in [Colls -> 0..MaxLen] : env["filter(xs)"] <= env["xs"]}

AsmHolds(asm, env) == asm = T \/ env["ys"] <= env["xs"]

\* valid(assumptions => len(c1) <= len(c2))
LenValid ==
  [q \in Colls \X Colls \X Asms |->
     \A env \in LenEnvs : AsmHolds(q[3], env) => env[q[1]] <= env[q[2]]]

\* the values a variable is bound to: a negative one, small ones and ones
\* above the threshold 1000 of assume-large-cardinalities
Dom == {-1001} \cup (0..MaxVal) \cup (1001..(1001 + MaxVal))

AtomVars(a) == FormulaVars(a.l) \cup FormulaVars(a.r)
AtomsVars(as) == UNION {AtomVars(as[i]) : i \in 1..Len(as)}

AtomHolds(a, env) == EvalOp(EvalF(a.l, env), a.op, EvalF(a.r, env))

\* the truth of valid(EImplies(EAll(premises), goal)) over the integers
IntValid(premises, goal) ==
  \A env \in [AtomsVars(premises) \cup AtomVars(goal) -> Dom] :
     (\A i \in 1..Len(premises) : AtomHolds(premises[i], env)) => AtomHolds(goal, env)

(***************************************************************************)
(* Cost.order_cardinalities and the cardinality oracle.                    *)
(***************************************************************************)
RECURSIVE update(_, _)
\* OrderedDict.update: a key already present keeps its place and takes the
\* new value, a new key goes to the end
update(d, items) ==
  IF items = <<>> THEN d
  ELSE LET it == Head(items)
           d1 == IF \E i \in 1..Len(d) : d[i].v = it.v
                 THEN [i \in 1..Len(d) |-> IF d[i].v = it.v THEN it ELSE d[i]]
                 ELSE Append(d, it)
       IN update(d1, Tail(items))

MergedCards(self, other) == update(update(<<>>, self.cardinalities), other.cardinalities)

\* a variant of cardinality_le_implies_lt with the strict oracle enabled
cardinality_le_implies_lt_mut(c1, c2, asm) == LenValid[<<c1, c2, asm>>]

\* cardinality_le_implies_lt: disabled, returns False
cardinality_le_implies_lt(c1, c2, asm) == FALSE

\* One call of cardinality_le(c1, c2, assumptions) from the state acc of
\* order_cardinalities.  A key the lru_cache holds is answered from it; any
\* other is a solver query, which is reported unknown (the exception leaves
\* the cache as it is) when it is query number unk of the call, and decided
\* and cached otherwise.
cardinality_le(acc, c1, c2, asm, unk) ==
  LET key == <<c1, c2, asm>>
      asked == [acc EXCEPT !.asked = Append(@, key)]
  IN IF key \in acc.cache
     THEN [r |-> asked, le |-> LenValid[key]]
     ELSE IF acc.calls + 1 = unk
          THEN [r |-> [asked EXCEPT !.calls = @ + 1, !.raised = TRUE], le |-> FALSE]
          ELSE [r |-> [asked EXCEPT !.calls = @ + 1, !.cache = @ \cup {key}],
                le |-> LenValid[key]]

\* the body of the inner loop of order_cardinalities for the pair (i, j)
OrderPair(acc, cards, i, j, asm, unk) ==
  LET v1 == cards[i].v
      c1 == cards[i].e
      v2 == cards[j].v
      c2 == cards[j].e
  IN IF v1 = v2 \/ TypeOf(c1) # TypeOf(c2) THEN acc
     ELSE IF alpha_equivalent(c1, c2)
          THEN [acc EXCEPT !.res = Append(@, Atom(EVarF(v1), "==", EVarF(v2)))]
          ELSE LET q == cardinality_le(acc, c1, c2, asm, unk)
               IN IF q.r.raised \/ ~q.le THEN q.r
                  ELSE IF cardinality_le_implies_lt(c1, c2, asm)
                       THEN [q.r EXCEPT !.res = Append(@, Atom(EVarF(v1), "<", EVarF(v2)))]
                       ELSE [q.r EXCEPT !.res = Append(@, Atom(EVarF(v1), "<=", EVarF(v2)))]

\* a variant of NonNegative that emits no v >= 0
NonNegative_mut(acc, v) == acc

\* res.append(EBinOp(v1, ">=", ZERO))
NonNegative(acc, v) == [acc EXCEPT !.res = Append(@, Atom(EVarF(v), ">=", ZERO))]

RECURSIVE OrderLoop(_, _, _, _, _)
\* the two nested loops, from step k on; step k is the pair
\* ((k - 1) \div n + 1, (k - 1) % n + 1) of the n entries
OrderLoop(acc, cards, k, asm, unk) ==
  LET n == Len(cards)
      i == ((k - 1) \div n) + 1
      j == ((k - 1) % n) + 1
      acc1 == IF j = 1 THEN NonNegative(acc, cards[i].v) ELSE acc
  IN IF k > n * n \/ acc.raised THEN acc
     ELSE OrderLoop(OrderPair(acc1, cards, i, j, asm, unk), cards, k + 1, asm, unk)

\* One run of self.order_cardinalities(other, assumptions) with the
\* lru_cache as it is at the call: res is the conjunction returned (when
\* raised is false), cache the lru_cache after the call, calls the number of
\* solver queries made and asked the calls of cardinality_le made.
OrderRun(self, other, asm, cch, unk) ==
  OrderLoop([res |-> <<>>, cache |-> cch, calls |-> 0, raised |-> FALSE, asked |-> <<>>],
            MergedCards(self, other), 1, asm, unk)

\* the runs the solver allows: every query decided (unk = 0), or query
\* number unk reported unknown
order_cardinalities(self, other, asm, cch) ==
  {OrderRun(self, other, asm, cch, unk) :
     unk \in 0..OrderRun(self, other, asm, cch, 0).calls}

(***************************************************************************)
(* Cost.always.                                                            *)
(***************************************************************************)
CmpOps == {"<=", "<", ">=", ">"}

\* the query of always: EImplies(EAll((self.assumptions, other.assumptions,
\* cards)), EBinOp(self.formula, op, other.formula))
Query(self, op, other, cards) ==
  [prem |-> self.assumptions \o other.assumptions \o cards,
   goal |-> Atom(self.formula, op, other.formula)]

\* The part of always after the joint constraints are known: the set of
\* its possible returns.  A pair of literal formulas is evaluated.  Else
\* the integer query is decided ("decided"); or it is unknown and the
\* real-domain retry is decided ("retry_decided"); or both are unknown and
\* the answer is False ("gave_up").  The retry is taken to decide as the
\* integer query would: the models the relaxation adds are left out.
AlwaysWith(self, op, other, cards) ==
  LET q == Query(self, op, other, cards)
      truth == IntValid(q.prem, q.goal)
  IN IF IsENum(self.formula) /\ IsENum(other.formula)
     THEN {[val |-> AtomHolds(q.goal, <<>>), calls |-> 0, out |-> "eval"]}
     ELSE {[val |-> truth, calls |-> 1, out |-> "decided"],
           [val |-> truth, calls |-> 2, out |-> "retry_decided"],
           [val |-> FALSE, calls |-> 2, out |-> "gave_up"]}

\* self.always(op, other, assumptions, cards): given says whether cards is
\* passed; when it is not, order_cardinalities runs first
always(self, op, other, asm, given, cards, cch) ==
  LET ocs == IF given
             THEN {[res |-> cards, cache |-> cch, calls |-> 0, raised |-> FALSE,
                    asked |-> <<>>]}
             ELSE order_cardinalities(self, other, asm, cch)
  IN UNION {
       IF oc.raised
       THEN {[raised |-> TRUE, val |-> FALSE, calls |-> oc.calls, out |-> "none",
              cache |-> oc.cache]}
       ELSE {[raised |-> FALSE, val |-> a.val, calls |-> oc.calls + a.calls,
              out |-> a.out, cache |-> oc.cache] :
                a \in AlwaysWith(self, op, other, oc.res)}
       : oc \in ocs}

\* the four derived predicates: the returns of always, negated where neg
Negated(rs, neg) == {[r EXCEPT !.val = IF r.raised THEN FALSE ELSE (@ # neg)] : r \in rs}

always_worse_than(self, other, asm, given, cards, cch) ==
  Negated(always(self, ">", other, asm, given, cards, cch), FALSE)

always_better_than(self, other, asm, given, cards, cch) ==
  Negated(always(self, "<", other, asm, given, cards, cch), FALSE)

\* a variant of sometimes_worse_than without the negation
sometimes_worse_than_mut(self, other, asm, given, cards, cch) ==
  Negated(always(self, "<=", other, asm, given, cards, cch), FALSE)

sometimes_worse_than(self, other, asm, given, cards, cch) ==
  Negated(always(self, "<=", other, asm, given, cards, cch), TRUE)

sometimes_better_than(self, other, asm, given, cards, cch) ==
  Negated(always(self, ">=", other, asm, given, cards, cch), TRUE)

(***************************************************************************)
(* Cost.compare_to.                                                        *)
(***************************************************************************)
WORSE == "worse"
BETTER == "better"
UNORDERED == "unordered"

\* a variant of Decide whose tie-break ignores equal secondaries
Decide_mut(o1, o2, s1, s2) ==
  IF o1 /\ ~o2 THEN BETTER
  ELSE IF o2 /\ ~o1 THEN WORSE
  ELSE IF ~o1 /\ ~o2 THEN UNORDERED
  ELSE IF s1 >= s2 THEN WORSE
  ELSE BETTER

\* the if/elif chain of compare_to
Decide(o1, o2, s1, s2) ==
  IF o1 /\ ~o2 THEN BETTER
  ELSE IF o2 /\ ~o1 THEN WORSE
  ELSE IF ~o1 /\ ~o2 THEN UNORDERED
  ELSE IF s1 > s2 THEN WORSE
  ELSE IF s1 < s2 THEN BETTER
  ELSE UNORDERED

\* self.compare_to(other, assumptions): the set of its possible returns;
\* q1 and q2 are the two queries made
compare_to(self, other, asm, cch) ==
  UNION {
    IF oc.raised
    THEN {[raised |-> TRUE, res |-> "none", o1 |-> FALSE, o2 |-> FALSE, out1 |-> "none",
           out2 |-> "none", calls |-> oc.calls, asked |-> oc.asked, cache |-> oc.cache,
           q1 |-> Query(self, "<=", other, <<>>), q2 |-> Query(other, "<=", self, <<>>)]}
    ELSE {[raised |-> FALSE,
           res |-> Decide(a1.val, a2.val, self.secondary, other.secondary),
           o1 |-> a1.val, o2 |-> a2.val, out1 |-> a1.out, out2 |-> a2.out,
           calls |-> oc.calls + a1.calls + a2.calls, asked |-> oc.asked,
           cache |-> oc.cache,
           q1 |-> Query(self, "<=", other, oc.res),
           q2 |-> Query(other, "<=", self, oc.res)] :
             <<a1, a2>> \in
               {p \in AlwaysWith(self, "<=", other, oc.res)
                        \X AlwaysWith(other, "<=", self, oc.res) :
                  Query(self, "<=", other, oc.res) = Query(other, "<=", self, oc.res)
                    => p[1].out = p[2].out}}
    : oc \in order_cardinalities(self, other, asm, cch)}

\* two calls of compare_to agree on the outcome of a query they both make
SameOutcomes(f, b) ==
  /\ f.q1 = b.q1 => f.out1 = b.out1
  /\ f.q1 = b.q2 => f.out1 = b.out2
  /\ f.q2 = b.q1 => f.out2 = b.out1
  /\ f.q2 = b.q2 => f.out2 = b.out2

(***************************************************************************)
(* The calls.                                                              *)
(***************************************************************************)
\* the calls cost(e, pool) made
CostInputs ==
  ({"x", "x.f", "m[x]", "len(m[x])", "xs", "ys", "len(filter(xs))", "state(xs)"}
     \X {RUNTIME_POOL})
  \cup ({"xs", "x.f"} \X {STATE_POOL})

\* last when no call has returned a value the caller still holds
NoCall ==
  [op |-> "none", i |-> 0, j |-> 0, asm |-> T, cmp |-> "none", raised |-> FALSE,
   val |-> FALSE, res |-> "none", res2 |-> "none", o1 |-> FALSE, o2 |-> FALSE,
   out1 |-> "none", out2 |-> "none", calls |-> 0, asked |-> <<>>, cards |-> <<>>]

Idle == last.op = "none"

Init ==
  /\ fresh = 0
  /\ scratch = [cards |-> <<>>, asms |-> <<>>, sec |-> 0]
  /\ costs = <<>>
  /\ inputs = <<>>
  /\ cache = {}
  /\ last = NoCall

\* the Cost objects a caller can hold: Cost.ZERO (0) and those returned
CostAt(i) == IF i = 0 THEN CostZERO ELSE costs[i]
Held == 0..Len(costs)

\* cost(e, pool)
CostCall(e, pool) ==
  /\ Idle
  /\ Len(costs) < MaxCosts
  /\ IF simple_cost_model
     THEN /\ costs' = Append(costs, Cost(e, pool, ZERO, 100 * SizeOf(e), <<>>, <<>>))
          /\ UNCHANGED <<fresh, scratch>>
     ELSE IF pool = RUNTIME_POOL
     THEN LET r == RuntimeScratch(e, fresh)
          IN /\ costs' = Append(costs, RuntimeCost(e, pool, r))
             /\ fresh' = r.st.fresh
             /\ scratch' = [cards |-> r.st.cards, asms |-> r.st.asms, sec |-> r.st.sec]
     ELSE /\ costs' = Append(costs, StateCost(e, pool))
          /\ UNCHANGED <<fresh, scratch>>
  /\ inputs' = Append(inputs, <<e, pool>>)
  /\ UNCHANGED <<cache, last>>

\* c_i.order_cardinalities(c_j, asm)
OrderCardinalities(i, j, asm) ==
  /\ Idle
  /\ \E oc \in order_cardinalities(CostAt(i), CostAt(j), asm, cache) :
       /\ cache' = oc.cache
       /\ last' = [NoCall EXCEPT !.op = "order_cardinalities", !.i = i, !.j = j,
                     !.asm = asm, !.raised = oc.raised, !.calls = oc.calls,
                     !.asked = oc.asked,
                     !.cards = IF oc.raised THEN <<>> ELSE oc.res]
  /\ UNCHANGED <<fresh, scratch, costs, inputs>>

\* the record of a call of always or of a derived predicate
BoolCall(name, cmp, i, j, asm, r) ==
  [NoCall EXCEPT !.op = name, !.cmp = cmp, !.i = i, !.j = j, !.asm = asm,
     !.raised = r.raised, !.val = r.val, !.calls = r.calls, !.out1 = r.out]

\* c_i.always(op, c_j, asm)
Always(i, j, op, asm) ==
  /\ Idle
  /\ \E r \in always(CostAt(i), op, CostAt(j), asm, FALSE, <<>>, cache) :
       /\ cache' = r.cache
       /\ last' = BoolCall("always", op, i, j, asm, r)
  /\ UNCHANGED <<fresh, scratch, costs, inputs>>

\* c_i.always_worse_than(c_j, asm)
AlwaysWorseThan(i, j, asm) ==
  /\ Idle
  /\ \E r \in always_worse_than(CostAt(i), CostAt(j), asm, FALSE, <<>>, cache) :
       /\ cache' = r.cache
       /\ last' = BoolCall("always_worse_than", ">", i, j, asm, r)
  /\ UNCHANGED <<fresh, scratch, costs, inputs>>

\* c_i.always_better_than(c_j, asm)
AlwaysBetterThan(i, j, asm) ==
  /\ Idle
  /\ \E r \in always_better_than(CostAt(i), CostAt(j), asm, FALSE, <<>>, cache) :
       /\ cache' = r.cache
       /\ last' = BoolCall("always_better_than", "<", i, j, asm, r)
  /\ UNCHANGED <<fresh, scratch, costs, inputs>>

\* c_i.sometimes_worse_than(c_j, asm)
SometimesWorseThan(i, j, asm) ==
  /\ Idle
  /\ \E r \in sometimes_worse_than(CostAt(i), CostAt(j), asm, FALSE, <<>>, cache) :
       /\ cache' = r.cache
       /\ last' = BoolCall("sometimes_worse_than", "<=", i, j, asm, r)
  /\ UNCHANGED <<fresh, scratch, costs, inputs>>

\* c_i.sometimes_better_than(c_j, asm)
SometimesBetterThan(i, j, asm) ==
  /\ Idle
  /\ \E r \in sometimes_better_than(CostAt(i), CostAt(j), asm, FALSE, <<>>, cache) :
       /\ cache' = r.cache
       /\ last' = BoolCall("sometimes_better_than", ">=", i, j, asm, r)
  /\ UNCHANGED <<fresh, scratch, costs, inputs>>

\* c_i.compare_to(c_j, asm)
CompareTo(i, j, asm) ==
  /\ Idle
  /\ \E r \in compare_to(CostAt(i), CostAt(j), asm, cache) :
       /\ cache' = r.cache
       /\ last' = [NoCall EXCEPT !.op = "compare_to", !.i = i, !.j = j, !.asm = asm,
                     !.raised = r.raised, !.res = r.res, !.o1 = r.o1, !.o2 = r.o2,
                     !.out1 = r.out1, !.out2 = r.out2, !.calls = r.calls,
                     !.asked = r.asked]
  /\ UNCHANGED <<fresh, scratch, costs, inputs>>

\* debug_comparison(e1, c_i, e2, c_j): c_i.compare_to(c_j), then
\* c_j.compare_to(c_i), then c_i.order_cardinalities(c_j, T); an exception
\* ends it.  The four calls of always that follow are given the conjunction
\* and only print.  res and res2 are the two results printed.
DebugComparison(i, j) ==
  /\ Idle
  /\ \E f \in compare_to(CostAt(i), CostAt(j), T, cache) :
       IF f.raised
       THEN /\ cache' = f.cache
            /\ last' = [NoCall EXCEPT !.op = "debug_comparison", !.i = i, !.j = j,
                          !.raised = TRUE]
       ELSE \E b \in {r \in compare_to(CostAt(j), CostAt(i), T, f.cache) :
                         r.raised \/ SameOutcomes(f, r)} :
              IF b.raised
              THEN /\ cache' = b.cache
                   /\ last' = [NoCall EXCEPT !.op = "debug_comparison", !.i = i, !.j = j,
                                 !.raised = TRUE, !.res = f.res]
              ELSE \E oc \in order_cardinalities(CostAt(i), CostAt(j), T, b.cache) :
                     /\ cache' = oc.cache
                     /\ last' = [NoCall EXCEPT !.op = "debug_comparison", !.i = i,
                                   !.j = j, !.raised = oc.raised, !.res = f.res,
                                   !.res2 = b.res]
  /\ UNCHANGED <<fresh, scratch, costs, inputs>>

\* the caller is done with the value returned and makes its next call
Return ==
  /\ ~Idle
  /\ last' = NoCall
  /\ UNCHANGED <<fresh, scratch, costs, inputs, cache>>

\* the cost model alone
NextCost ==
  \E c \in CostInputs : CostCall(c[1], c[2])

SpecCost == Init /\ [][NextCost]_vars

\* costs whose cardinality variables stand for collections of the same type
\* and of different types
OracleInputs ==
  {"xs", "ys", "len(m[x])", "len(filter(xs))"} \X {RUNTIME_POOL}

\* the joint constraints, under both external assumptions
NextOrder ==
  \/ \E c \in OracleInputs : CostCall(c[1], c[2])
  \/ \E i \in Held, j \in Held, asm \in Asms : OrderCardinalities(i, j, asm)
  \/ Return

SpecOrder == Init /\ [][NextOrder]_vars

\* always, called without the joint constraints
NextAlways ==
  \/ \E c \in OracleInputs : CostCall(c[1], c[2])
  \/ \E i \in Held, j \in Held, op \in CmpOps : Always(i, j, op, T)
  \/ Return

SpecAlways == Init /\ [][NextAlways]_vars

\* the derived predicates and compare_to, over costs of both pools
EngineInputs ==
  ({"len(m[x])", "len(filter(xs))", "state(xs)"} \X {RUNTIME_POOL})
  \cup ({"xs"} \X {STATE_POOL})

NextPred ==
  \/ \E c \in EngineInputs : CostCall(c[1], c[2])
  \/ \E i \in Held, j \in Held : AlwaysWorseThan(i, j, T)
  \/ \E i \in Held, j \in Held : AlwaysBetterThan(i, j, T)
  \/ \E i \in Held, j \in Held : SometimesWorseThan(i, j, T)
  \/ \E i \in Held, j \in Held : SometimesBetterThan(i, j, T)
  \/ \E i \in Held, j \in Held : CompareTo(i, j, T)
  \/ Return

SpecPred == Init /\ [][NextPred]_vars

\* compare_to and debug_comparison
NextCompare ==
  \/ \E c \in EngineInputs : CostCall(c[1], c[2])
  \/ \E i \in Held, j \in Held : CompareTo(i, j, T)
  \/ \E i \in Held, j \in Held : DebugComparison(i, j)
  \/ Return

SpecCompare == Init /\ [][NextCompare]_vars

(***************************************************************************)
(* The properties.                                                         *)
(***************************************************************************)
Self == CostAt(last.i)
Other == CostAt(last.j)

Returned(name) == last.op = name /\ ~last.raised

\* the conjunction order_cardinalities returns for the two costs of the
\* last call
JointCards == OrderRun(Self, Other, last.asm, {}, 0).res

\* the pairs of entries of the merged map for which cardinality_le is called
\* in one pass over the map
OraclePairs ==
  LET m == MergedCards(Self, Other)
  IN {p \in (1..Len(m)) \X (1..Len(m)) :
        /\ m[p[1]].v # m[p[2]].v
        /\ TypeOf(m[p[1]].e) = TypeOf(m[p[2]].e)
        /\ ~alpha_equivalent(m[p[1]].e, m[p[2]].e)}

Holds(q) == IntValid(q.prem, q.goal)

\* C1: compare_to computes the joint constraints once, evaluates both
\* directions of "<=" against them and returns BETTER when only o1 holds,
\* WORSE when only o2 holds, UNORDERED when neither holds, and when both hold
\* WORSE, BETTER or UNORDERED as self.secondary is greater than, less than or
\* equal to other.secondary; the result is always one of the three values.
C1_CompareToTable ==
  Returned("compare_to") =>
    /\ last.res \in {BETTER, WORSE, UNORDERED}
    /\ (last.o1 /\ ~last.o2) => last.res = BETTER
    /\ (last.o2 /\ ~last.o1) => last.res = WORSE
    /\ (~last.o1 /\ ~last.o2) => last.res = UNORDERED
    /\ (last.o1 /\ last.o2 /\ Self.secondary > Other.secondary) => last.res = WORSE
    /\ (last.o1 /\ last.o2 /\ Self.secondary < Other.secondary) => last.res = BETTER
    /\ (last.o1 /\ last.o2 /\ Self.secondary = Other.secondary) => last.res = UNORDERED
    /\ Len(last.asked) = Cardinality(OraclePairs)
    /\ last.out1 = "decided" => last.o1 = Holds(Query(Self, "<=", Other, JointCards))
    /\ last.out2 = "decided" => last.o2 = Holds(Query(Other, "<=", Self, JointCards))

\* a comparison in which both directions hold and the secondaries decide
C1_Witness ==
  /\ Returned("compare_to")
  /\ last.o1 /\ last.o2
  /\ Self.secondary > Other.secondary
  /\ last.res = WORSE

\* C2: c1.compare_to(c2) is BETTER exactly when c2.compare_to(c1) is WORSE,
\* and UNORDERED exactly when c2.compare_to(c1) is UNORDERED.
C2_Antisymmetry ==
  Returned("debug_comparison") =>
    /\ last.res = BETTER <=> last.res2 = WORSE
    /\ last.res = WORSE <=> last.res2 = BETTER
    /\ last.res = UNORDERED <=> last.res2 = UNORDERED

\* C3: always returns a boolean, never raises, and makes at most two solver
\* calls.
C3_AlwaysTotal ==
  last.op = "always" => (~last.raised /\ last.calls <= 2)

Predicates ==
  {"always_worse_than", "always_better_than", "sometimes_worse_than",
   "sometimes_better_than"}

\* C4 as stated: when the solver reports unknown on the integer query and on
\* the retry, each of the four predicates returns false and compare_to
\* returns UNORDERED.
C4_AllFalseOnUnknown ==
  /\ (last.op \in Predicates /\ ~last.raised /\ last.out1 = "gave_up") => ~last.val
  /\ (Returned("compare_to") /\ last.out1 = "gave_up" /\ last.out2 = "gave_up")
       => last.res = UNORDERED

\* C4, amended: when the solver reports unknown on the integer query and on
\* the retry, always_worse_than and always_better_than return false,
\* sometimes_worse_than and sometimes_better_than return true, and compare_to,
\* both of whose queries end so, returns UNORDERED.
C4_UnknownIsNotAlways ==
  /\ (last.op \in {"always_worse_than", "always_better_than"} /\ ~last.raised
        /\ last.out1 = "gave_up") => ~last.val
  /\ (last.op \in {"sometimes_worse_than", "sometimes_better_than"} /\ ~last.raised
        /\ last.out1 = "gave_up") => last.val
  /\ (Returned("compare_to") /\ last.out1 = "gave_up" /\ last.out2 = "gave_up")
       => last.res = UNORDERED

\* sometimes_worse_than has returned after the solver gave up
C4_Witness ==
  /\ Returned("sometimes_worse_than")
  /\ last.out1 = "gave_up"
  /\ last.val

\* C5: when both formulas are literals, always makes no solver call.
C5_FastPathNoSolver ==
  (last.op = "always" /\ IsENum(Self.formula) /\ IsENum(Other.formula))
    => (~last.raised /\ last.calls = 0)

\* the two costs of the last call are one object, or were returned by two
\* calls cost(e, pool) with the same e and pool
SameInput ==
  \/ last.i = last.j
  \/ (last.i > 0 /\ last.j > 0 /\ inputs[last.i] = inputs[last.j])

\* C6: comparing the cost of e with the cost of e yields UNORDERED, whatever
\* the solver answers.
C6_Reflexive ==
  (Returned("compare_to") /\ SameInput) => last.res = UNORDERED

\* the formula of c is at least 1 whenever its assumptions hold and its
\* cardinality variables are not negative
AtLeastOne(c) ==
  LET vs == {c.cardinalities[k].v : k \in 1..Len(c.cardinalities)}
  IN \A env \in [vs -> Dom] :
       ((\A v \in vs : env[v] >= 0)
          /\ (\A k \in 1..Len(c.assumptions) : AtomHolds(c.assumptions[k], env)))
       => EvalF(c.formula, env) >= 1

Decided(out) == out \in {"decided", "eval"}

\* C7: with a solver that decides its queries, Cost.ZERO.always("<=", c)
\* holds, Cost.ZERO.compare_to(c) is BETTER or the tie of equal secondaries
\* and never WORSE, and Cost.ZERO.always_better_than(c) holds when the formula
\* of c is at least 1 in every model.
C7_ZeroDominance ==
  /\ (Returned("compare_to") /\ last.i = 0 /\ Decided(last.out1) /\ Decided(last.out2))
       => /\ last.o1
          /\ last.res \in {BETTER, UNORDERED}
          /\ last.res = UNORDERED => (last.o2 /\ Other.secondary = 0)
  /\ (Returned("always_better_than") /\ last.i = 0 /\ Decided(last.out1)
        /\ AtLeastOne(Other))
       => last.val

\* Cost.ZERO has been compared with a cost whose formula has a variable, and
\* the solver decided
C7_Witness ==
  /\ Returned("compare_to")
  /\ last.i = 0 /\ last.j > 0
  /\ last.out1 = "decided" /\ last.out2 = "decided"
  /\ FormulaVars(Other.formula) # {}
  /\ last.res = BETTER

\* f is less than g under every binding of their variables
Less(f, g) ==
  \A env \in [FormulaVars(f) \cup FormulaVars(g) -> Dom] : EvalF(f, env) < EvalF(g, env)

CostsOf(e) == {k \in 1..Len(costs) : inputs[k] = <<e, RUNTIME_POOL>>}

\* C8 as stated: the formula of the map lookup m[x] is less than the formula
\* of the field access x.f and greater than the formula of the variable x.
C8_LookupBelowField ==
  \A a \in CostsOf("m[x]") :
    /\ \A b \in CostsOf("x.f") : Less(costs[a].formula, costs[b].formula)
    /\ \A b \in CostsOf("x") : Less(costs[b].formula, costs[a].formula)

\* C8, amended: the formula of the map lookup m[x] is greater than the
\* formula of the field access x.f and greater than the formula of the
\* variable x, under every binding.
C8_LookupAboveField ==
  \A a \in CostsOf("m[x]") :
    /\ \A b \in CostsOf("x.f") : Less(costs[b].formula, costs[a].formula)
    /\ \A b \in CostsOf("x") : Less(costs[b].formula, costs[a].formula)

\* the lookup and the field access have both been costed
C8_Witness == CostsOf("m[x]") # {} /\ CostsOf("x.f") # {}

HasAtom(a) == \E k \in 1..Len(last.cards) : last.cards[k] = a

\* the variables of the merged map and what each stands for: the entry of
\* other wins over the entry of self
MergedVars ==
  {Self.cardinalities[k].v : k \in 1..Len(Self.cardinalities)}
  \cup {Other.cardinalities[k].v : k \in 1..Len(Other.cardinalities)}

Denotes(v) ==
  IF \E k \in 1..Len(Other.cardinalities) : Other.cardinalities[k].v = v
  THEN Other.cardinalities[
         CHOOSE k \in 1..Len(Other.cardinalities) : Other.cardinalities[k].v = v].e
  ELSE Self.cardinalities[
         CHOOSE k \in 1..Len(Self.cardinalities) : Self.cardinalities[k].v = v].e

\* C9: the conjunction order_cardinalities returns has v >= 0 for every
\* variable of the merged map; for two distinct variables of expressions of
\* one type it has v1 == v2 when the expressions are alpha-equivalent, and
\* otherwise v1 <= v2 exactly when the oracle proves it under the given
\* assumptions, never v1 < v2; it relates no two variables of expressions of
\* different types; and the oracle is called for no pair of different types
\* and for no alpha-equivalent pair.
C9_OrderCardinalities ==
  Returned("order_cardinalities") =>
    /\ \A v \in MergedVars : HasAtom(Atom(EVarF(v), ">=", ZERO))
    /\ \A v1 \in MergedVars : \A v2 \in MergedVars \ {v1} :
         IF TypeOf(Denotes(v1)) # TypeOf(Denotes(v2))
         THEN \A op \in {"==", "<=", "<", ">=", ">"} :
                ~HasAtom(Atom(EVarF(v1), op, EVarF(v2)))
         ELSE IF alpha_equivalent(Denotes(v1), Denotes(v2))
         THEN HasAtom(Atom(EVarF(v1), "==", EVarF(v2)))
         ELSE /\ HasAtom(Atom(EVarF(v1), "<=", EVarF(v2)))
                   <=> LenValid[<<Denotes(v1), Denotes(v2), last.asm>>]
              /\ ~HasAtom(Atom(EVarF(v1), "<", EVarF(v2)))
              /\ ~HasAtom(Atom(EVarF(v1), "==", EVarF(v2)))
    /\ \A k \in 1..Len(last.asked) :
         /\ TypeOf(last.asked[k][1]) = TypeOf(last.asked[k][2])
         /\ ~alpha_equivalent(last.asked[k][1], last.asked[k][2])

\* a conjunction with an equality, a proven inequality and a pair of
\* variables of different types
C9_Witness ==
  /\ Returned("order_cardinalities")
  /\ \E k \in 1..Len(last.cards) : last.cards[k].op = "=="
  /\ \E k \in 1..Len(last.cards) : last.cards[k].op = "<="
  /\ last.asked # <<>>

RECURSIVE SubExprs(_)
SubExprs(e) == {e} \cup UNION {SubExprs(Children(e)[k]) : k \in 1..Len(Children(e))}

RECURSIVE SumOver(_, _)
SumOver(S, f) ==
  IF S = {} THEN 0 ELSE LET x == CHOOSE x \in S : TRUE IN f[x] + SumOver(S \ {x}, f)

\* the state-size charge of e: the sizes of the expressions its EStateVar
\* nodes wrap
StateCharge(e) ==
  LET ws == {w \in SubExprs(e) : Kind(w) = "EStateVar"}
  IN SumOver(ws, [w \in ws |-> SizeOf(Children(w)[1])])

CardVars(c) == {c.cardinalities[k].v : k \in 1..Len(c.cardinalities)}

CostVars(c) == CardVars(c) \cup AtomsVars(c.assumptions) \cup FormulaVars(c.formula)

\* C10: every Cost a runtime-pool call has returned has only cardinality
\* variables that stand for sub-expressions of its own expression and that no
\* earlier Cost has, assumptions and a formula over these variables only, and
\* as secondary the state-size charge of its own expression, whatever calls
\* came before or after.
C10_FreshScratch ==
  \A k \in 1..Len(costs) :
    inputs[k][2] = RUNTIME_POOL =>
      LET c == costs[k]
          earlier == UNION {CostVars(costs[h]) : h \in 1..(k - 1)}
      IN /\ \A n \in 1..Len(c.cardinalities) :
              /\ c.cardinalities[n].e \in SubExprs(inputs[k][1])
              /\ c.cardinalities[n].v \notin earlier
              /\ \A n2 \in 1..Len(c.cardinalities) :
                   c.cardinalities[n2].e = c.cardinalities[n].e => n2 = n
         /\ AtomsVars(c.assumptions) \cup FormulaVars(c.formula) \subseteq CardVars(c)
         /\ c.secondary = StateCharge(inputs[k][1])

\* a runtime-pool call with a state-size charge after another one
C10_Witness ==
  /\ Len(costs) = 2
  /\ inputs[1] = <<"state(xs)", RUNTIME_POOL>>
  /\ inputs[2] = <<"state(xs)", RUNTIME_POOL>>

====
